---- MODULE Spec2Model ----
(***************************************************************************)
(* Model of the Wayback -> WordPress import pipeline                       *)
(* (src/wayback_importer.py): the SQLite store (urls, articles, assets,    *)
(* logs), discovery, the concurrent fetcher, page processing, the          *)
(* publisher and the internal-link fixer.                                  *)
(*                                                                         *)
(* Strings are modelled as sequences of tokens (a token is a character of  *)
(* a host name, a separator such as "/" or "://", or a path segment), so   *)
(* that substring tests, urlparse, lower(), lstrip() and the regular       *)
(* expressions of the source act on them as they act on Python strings.    *)
(***************************************************************************)
EXTENDS Integers, Sequences, FiniteSets, TLC

\* ---------------------------------------------------------------- bounds
\* number of run_fetching invocations explored
MaxRuns == 2
\* number of audit-log rows explored
MaxLogs == 2
\* how many times the process is stopped in the middle of a phase
MaxCrashes == 1

\* ------------------------------------------------------ program constants
\* WaybackFetcher.max_retries as the pipeline constructs it
MaxRetries == 5
\* the literal of get_pending_urls' WHERE clause (retries < 5)
PendingRetryCap == 5
\* asyncio.Semaphore(rate_limit), config default
RateLimit == 3
\* ImportPipeline.batch_size handed to LIMIT
BatchSize == 2

\* SQL NULL / Python None of an integer column, and of a text column
NULL == 0
NullStr == <<"NULL">>

\* ------------------------------------------------------------ string utils
Range(s) == {s[i] : i \in 1..Len(s)}

\* Python `pat in s` on strings: pat occurs as a contiguous run of s
Contains(pat, s) ==
    \E i \in 0..(Len(s) - Len(pat)) : SubSeq(s, i + 1, i + Len(pat)) = pat

\* str.lower() on one token
LowerTok(t) ==
    CASE t = "FEED" -> "feed"
      [] t = "W" -> "w"
      [] t = "O" -> "o"
      [] t = "A" -> "a"
      [] OTHER -> t

\* str.lower()
Lower(s) == [i \in 1..Len(s) |-> LowerTok(s[i])]

\* index of the first token of s at or after position i that lies in set
\* stops, Len(s)+1 when there is none
RECURSIVE FirstAt(_, _, _)
FirstAt(s, i, stops) ==
    IF i > Len(s) THEN Len(s) + 1
    ELSE IF s[i] \in stops THEN i
    ELSE FirstAt(s, i + 1, stops)

\* urllib.parse.urlparse: scheme://netloc/path?query
urlparse(s) ==
    LET hasScheme == Len(s) >= 2 /\ s[2] = "://"
        start == IF hasScheme THEN 3 ELSE 1
        pathAt == IF hasScheme THEN FirstAt(s, start, {"/", "?"}) ELSE start
        queryAt == FirstAt(s, pathAt, {"?"})
    IN  [scheme |-> IF hasScheme THEN s[1] ELSE "",
         netloc |-> IF hasScheme THEN SubSeq(s, start, pathAt - 1) ELSE <<>>,
         path   |-> SubSeq(s, pathAt, queryAt - 1),
         query  |-> SubSeq(s, queryAt + 1, Len(s))]

\* str.lstrip(chars): drop leading characters that belong to the set chars
RECURSIVE lstrip(_, _)
lstrip(s, chars) ==
    IF s # <<>> /\ Head(s) \in chars THEN lstrip(Tail(s), chars) ELSE s

\* str.rstrip(chars)
RECURSIVE rstrip(_, _)
rstrip(s, chars) ==
    IF s # <<>> /\ s[Len(s)] \in chars
    THEN rstrip(SubSeq(s, 1, Len(s) - 1), chars) ELSE s

\* re.sub(r'//+', '/', s)
RECURSIVE CollapseSlashes(_)
CollapseSlashes(s) ==
    IF Len(s) < 2 THEN s
    ELSE IF s[1] = "/" /\ s[2] = "/" THEN CollapseSlashes(Tail(s))
    ELSE <<s[1]>> \o CollapseSlashes(Tail(s))

\* normalize_url: (host, path) used as the key of internal-link matching
normalize_url(s) ==
    LET pu == urlparse(s)
    IN  <<lstrip(Lower(pu.netloc), {"w", "."}),
          CollapseSlashes(rstrip(pu.path, {"/"}))>>

\* ------------------------------------------------------------- data pools
ArchiveHost == <<"w", "eb.archive.org">>
HostOld == <<"o", ".", "c">>
HostWww == <<"w", "w", "w", ".", "o", ".", "c">>

\* source pages the archive index can list
UHome == <<"http", "://">> \o HostOld \o <<"/">>
UPostA == <<"http", "://">> \o HostWww \o <<"/", "a", "/">>
UFeed == <<"http", "://">> \o HostOld \o <<"/", "FEED", "/", "x", ".xml">>
Candidates == {UHome, UPostA, UFeed}
Timestamps == {"2019", "2020"}

\* snapshot locator built by discover_urls:
\* https://web.archive.org/web/{timestamp}id_/{original_url}
SnapshotUrl(timestamp, original_url) ==
    <<"https", "://">> \o ArchiveHost \o <<"/", "web", "/", timestamp, "id_", "/">>
        \o original_url

\* images and anchors found in archived pages
ImgA == <<"http", "://">> \o HostOld \o <<"/", "a.jpg">>
ImgAQ == ImgA \o <<"?", "w=2">>
ImgRel == <<"b.jpg">>
LinkToA == <<"https", "://">> \o HostOld \o <<"/", "a">>
LinkToHome == <<"http", "://">> \o HostWww \o <<"/">>

\* response bodies of the snapshot endpoint; "none"/"empty" are Python's None
\* and '' (both falsy), "page" is markup reduced to its img and a elements
NoneHtml == [kind |-> "none", elems |-> <<>>]
EmptyHtml == [kind |-> "empty", elems |-> <<>>]
PageHome ==
    [kind |-> "page",
     elems |-> << [tag |-> "img", ref |-> ImgA, alt |-> "x"],
                  [tag |-> "img", ref |-> ImgAQ, alt |-> ""],
                  [tag |-> "a", ref |-> LinkToA, alt |-> ""] >>]
PageA ==
    [kind |-> "page",
     elems |-> << [tag |-> "img", ref |-> ImgRel, alt |-> ""],
                  [tag |-> "a", ref |-> LinkToHome, alt |-> ""] >>]
Truthy(html) == html.kind = "page"

\* ------------------------------------------------------------------ state
VARIABLES
    urls,       \* table urls: sequence of rows, the row id is the index
    articles,   \* table articles
    assets,     \* table assets
    logs,       \* table logs (append-only)
    remote,     \* the WordPress site: posts, media, post updates received
    phase,      \* "idle" or the pipeline phase in progress
    pending,    \* run_fetching: the rows get_pending_urls returned
    tasks,      \* fetch_batch: one fetch_page task per row of pending
    permits,    \* value of WaybackFetcher.semaphore
    cursor,     \* run_fetching: index of the loop over results
    local,      \* run_publishing / fix_internal_links: their local variables
    ret,        \* the last call that returned, with its return value
    hist        \* the configured rate limit and what the environment did so far

vars == <<urls, articles, assets, logs, remote, phase, pending, tasks,
          permits, cursor, local, ret, hist>>

store == <<urls, articles, assets, logs>>
fetchRun == <<pending, tasks, permits, cursor>>

\* a call's return value as the caller sees it (calls: remote post updates
\* issued by the call; again: the call before it was the same operation)
Ret(op, val) == [op |-> op, val |-> val, calls |-> 0, again |-> FALSE]
NoLocal == [step |-> "none"]

\* --------------------------------------------------------------- Database
\* Database.log: one INSERT into logs, committed
Log(ls, level, message, context) ==
    Append(ls, [level |-> level, message |-> message, context |-> context])

\* add_url on a table without the UNIQUE constraint on original_url
add_url_no_unique(us, original_url, snapshot_url, timestamp) ==
    Append(us, [original_url |-> original_url, snapshot_url |-> snapshot_url,
                timestamp |-> timestamp, status |-> "pending", retries |-> 0])

\* add_url written as INSERT OR REPLACE: a known row is overwritten by the
\* freshly discovered one
add_url_replace(us, original_url, snapshot_url, timestamp) ==
    IF \E i \in 1..Len(us) : us[i].original_url = original_url
    THEN [i \in 1..Len(us) |->
             IF us[i].original_url = original_url
             THEN [original_url |-> original_url,
                   snapshot_url |-> snapshot_url, timestamp |-> timestamp,
                   status |-> "pending", retries |-> 0]
             ELSE us[i]]
    ELSE Append(us, [original_url |-> original_url,
                     snapshot_url |-> snapshot_url, timestamp |-> timestamp,
                     status |-> "pending", retries |-> 0])

\* Database.add_url: INSERT; original_url is UNIQUE and the IntegrityError of
\* a duplicate is swallowed
add_url(us, original_url, snapshot_url, timestamp) ==
    IF \E i \in 1..Len(us) : us[i].original_url = original_url
    THEN us
    ELSE Append(us, [original_url |-> original_url,
                     snapshot_url |-> snapshot_url,
                     timestamp |-> timestamp,
                     status |-> "pending",
                     retries |-> 0])

\* SELECT ... LIMIT n over a sequence of row ids
Limit(ids, n) == SubSeq(ids, 1, IF Len(ids) < n THEN Len(ids) ELSE n)

\* the row ids of set S in the order a SELECT returns them (ascending)
RECURSIVE SelectIds(_)
SelectIds(S) ==
    IF S = {} THEN <<>>
    ELSE LET first == CHOOSE i \in S : \A j \in S : i <= j
         IN  <<first>> \o SelectIds(S \ {first})

\* Database.get_pending_urls
PendingRow(r) == r.status = "pending" /\ r.retries < PendingRetryCap
get_pending_urls(us, limit) == Limit(SelectIds({i \in 1..Len(us) : PendingRow(us[i])}), limit)

\* Database.bump_retry
bump_retry(us, url_id) ==
    [us EXCEPT ![url_id].retries = @ + 1]

\* an UPDATE urls SET status that reaches no row
update_url_status_lost(us, url_id, status) == us

\* Database.update_url_status
update_url_status(us, url_id, status) ==
    [us EXCEPT ![url_id].status = status]

\* -------------------------------------------------------------- Discovery
ExcludePatterns ==
    { <<"/", "wp-admin", "/">>, <<"/", "feed", "/">>, <<"/", "tag", "/">>,
      <<"/", "author", "/">>, <<".xml">>, <<".json">> }

\* the exclusion test with all(...) in the place of any(...)
ExcludedAll(original_url) ==
    \A x \in ExcludePatterns : Contains(x, Lower(original_url))

\* the path-exclusion test of discover_urls
Excluded(original_url) ==
    \E x \in ExcludePatterns : Contains(x, Lower(original_url))

\* the loop of discover_urls over the rows of the index response
RECURSIVE DiscoverRows(_, _, _)
DiscoverRows(us, rows, discovered) ==
    IF rows = <<>> THEN [urls |-> us, discovered |-> discovered]
    ELSE LET row == Head(rows)
         IN  IF Excluded(row.original)
             THEN DiscoverRows(us, Tail(rows), discovered)
             ELSE DiscoverRows(
                      add_url(us, row.original,
                              SnapshotUrl(row.timestamp, row.original),
                              row.timestamp),
                      Tail(rows), discovered + 1)

\* answers of the CDX API: the rows after the header row, or a failure
Row(original, timestamp) == [original |-> original, timestamp |-> timestamp]
IndexResponses ==
    { [status |-> 200, rows |-> <<Row(UHome, "2019"), Row(UPostA, "2019")>>],
      [status |-> 200, rows |-> <<Row(UFeed, "2019"), Row(UHome, "2020")>>],
      [status |-> 200, rows |-> <<Row(UPostA, "2020"), Row(UPostA, "2019")>>],
      [status |-> 503, rows |-> <<>>] }

\* discover_urls without the status check: the body of any answer is read
\* as the list of rows
discover_urls_unchecked(resp) ==
    /\ phase = "idle"
    /\ Len(logs) < MaxLogs
    /\ LET r == DiscoverRows(urls, resp.rows, 0)
       IN  /\ urls' = r.urls
           /\ logs' = Log(logs, "info", "Discovered", r.discovered)
           /\ ret' = Ret("discover_urls", r.discovered)
    /\ UNCHANGED <<articles, assets, remote, phase, fetchRun, local, hist>>

\* WaybackDiscovery.discover_urls(domain): resp is the answer of the CDX API
discover_urls(resp) ==
    /\ phase = "idle"
    /\ Len(logs) < MaxLogs
    /\ IF resp.status # 200
       THEN /\ logs' = Log(logs, "error", "CDX API failed", resp.status)
            /\ urls' = urls
            /\ ret' = Ret("discover_urls", 0)
       ELSE LET r == DiscoverRows(urls, resp.rows, 0)
            IN  /\ urls' = r.urls
                /\ logs' = Log(logs, "info", "Discovered", r.discovered)
                /\ ret' = Ret("discover_urls", r.discovered)
    /\ UNCHANGED <<articles, assets, remote, phase, fetchRun, local, hist>>

\* ---------------------------------------------------------------- Fetcher
\* what the snapshot endpoint can answer to one request of fetch_page for
\* the page original_url: the home page is always served, the post's
\* snapshot is served with its markup or an empty body, or fails in any way
FetchResponses(original_url) ==
    IF original_url = UHome
    THEN {[kind |-> "ok", html |-> PageHome]}
    ELSE {[kind |-> k, html |-> NoneHtml] : k \in {"retriable", "other", "exc"}}
             \cup {[kind |-> "ok", html |-> h] : h \in {PageA, EmptyHtml}}

\* the answers to one request when the archive fails in one way only: the
\* post's snapshot is served or answers 404
NarrowFetch(original_url) ==
    IF original_url = UHome
    THEN {[kind |-> "ok", html |-> PageHome]}
    ELSE {[kind |-> "ok", html |-> PageA], [kind |-> "other", html |-> NoneHtml]}

\* the task of fetch_page(session, url_id, snapshot_url) before it runs
\* (transient: every attempt so far failed with 429/5xx or an exception)
NewTask ==
    [pc |-> "wait", attempt |-> 0, result |-> NoneHtml, transient |-> TRUE]

\* ImportPipeline.run_fetching up to the creation of the tasks of fetch_batch
run_fetching ==
    /\ phase = "idle"
    /\ hist.runs < MaxRuns
    /\ hist' = [hist EXCEPT !.runs = @ + 1]
    /\ LET batch == get_pending_urls(urls, BatchSize)
       IN  IF batch = <<>>
           THEN /\ ret' = Ret("run_fetching", 0)
                /\ UNCHANGED <<phase, fetchRun>>
           ELSE /\ phase' = "fetching"
                /\ pending' = batch
                /\ tasks' = [k \in 1..Len(batch) |-> NewTask]
                /\ permits' = hist.rate_limit
                /\ cursor' = 1
                /\ ret' = Ret("none", 0)
    /\ UNCHANGED <<store, remote, local>>

\* fetch_page entering its loop without waiting for the semaphore
AcquireUngated(k) ==
    /\ phase = "fetching"
    /\ tasks[k].pc = "wait"
    /\ permits' = permits - 1
    /\ tasks' = [tasks EXCEPT ![k] = [@ EXCEPT !.pc = "run", !.attempt = 1]]
    /\ UNCHANGED <<store, remote, phase, pending, cursor, local, ret, hist>>

\* fetch_page: `async with self.semaphore` entered
Acquire(k) ==
    /\ phase = "fetching"
    /\ tasks[k].pc = "wait"
    /\ permits > 0
    /\ permits' = permits - 1
    /\ tasks' = [tasks EXCEPT ![k] = [@ EXCEPT !.pc = "run", !.attempt = 1]]
    /\ UNCHANGED <<store, remote, phase, pending, cursor, local, ret, hist>>

\* a retry loop that writes the status at every failed attempt instead of
\* once, at the last one
AttemptUrlsEager(us, url_id, attempt, kind) ==
    CASE kind = "retriable" -> us
      [] kind = "other" ->
            update_url_status(bump_retry(us, url_id), url_id, "failed")
      [] kind = "exc" -> bump_retry(us, url_id)
      [] kind = "ok" -> update_url_status(us, url_id, "fetched")

\* store effects of one iteration of fetch_page's retry loop
AttemptUrls(us, url_id, attempt, kind) ==
    CASE kind = "retriable" -> us
      [] kind = "other" ->
            IF attempt = MaxRetries
            THEN update_url_status(bump_retry(us, url_id), url_id, "failed")
            ELSE bump_retry(us, url_id)
      [] kind = "exc" -> bump_retry(us, url_id)
      [] kind = "ok" -> update_url_status(us, url_id, "fetched")

\* the task after one iteration: returned (html or None), or next attempt
AttemptTask(t, resp) ==
    LET tr == t.transient /\ resp.kind \in {"retriable", "exc"}
    IN  IF resp.kind = "ok"
        THEN [t EXCEPT !.pc = "done", !.result = resp.html]
        ELSE IF t.attempt = MaxRetries
        THEN [t EXCEPT !.pc = "done", !.transient = tr]
        ELSE [t EXCEPT !.attempt = @ + 1, !.transient = tr]

\* fetch_page: one iteration of `for attempt in range(1, max_retries + 1)`,
\* the request answered by resp
Attempt(k, resp) ==
    /\ phase = "fetching"
    /\ tasks[k].pc = "run"
    /\ resp.kind = "exc" => Len(logs) < MaxLogs
    /\ LET t == tasks[k]
           url_id == pending[k]
       IN  /\ urls' = AttemptUrls(urls, url_id, t.attempt, resp.kind)
           /\ logs' = IF resp.kind = "exc"
                      THEN Log(logs, "error", "Fetch failed",
                               [url |-> url_id, attempt |-> t.attempt])
                      ELSE logs
           /\ tasks' = [tasks EXCEPT ![k] = AttemptTask(t, resp)]
           /\ permits' = IF AttemptTask(t, resp).pc = "done"
                         THEN permits + 1 ELSE permits
           /\ hist' = IF AttemptTask(t, resp).pc = "done"
                         /\ resp.kind # "ok" /\ AttemptTask(t, resp).transient
                      THEN [hist EXCEPT !.exhausted = @ \cup {url_id}]
                      ELSE hist
    /\ UNCHANGED <<articles, assets, remote, phase, pending, cursor, local,
                   ret>>

\* ------------------------------------------------------ Content processor
IsDigits(t) == t \in Timestamps

\* s matches r'(https?://web\.archive\.org/web/\d+)[^/]+/(.*)' from its start
WaybackMatch(s) ==
    /\ Len(s) >= 10
    /\ s[1] \in {"http", "https"} /\ s[2] = "://"
    /\ SubSeq(s, 3, 7) = ArchiveHost \o <<"/", "web", "/">>
    /\ IsDigits(s[8]) /\ s[9] # "/" /\ s[10] = "/"

\* re.sub(r'(https?://web\.archive\.org/web/\d+)[^/]+/(.*)', r'\1id_/', s)
SnapshotBase(s) ==
    IF WaybackMatch(s) THEN SubSeq(s, 1, 8) \o <<"id_", "/">> ELSE s

\* urllib.parse.urljoin(base, v)
urljoin(base, v) ==
    IF urlparse(v).scheme # "" THEN v
    ELSE IF v = <<>> THEN base
    ELSE IF Head(v) = "/"
    THEN LET b == urlparse(base)
         IN  <<b.scheme, "://">> \o b.netloc \o v
    ELSE rstrip(base, Range(base) \ {"/"}) \o v

\* re.sub(r'/web/(\d+)[^/]+/', r'/web/\1im_/', s): position j holds the
\* snapshot modifier of a match
ModifierAt(s, j) ==
    /\ j >= 5 /\ j < Len(s)
    /\ SubSeq(s, j - 4, j - 2) = <<"/", "web", "/">>
    /\ IsDigits(s[j - 1]) /\ s[j] # "/" /\ s[j + 1] = "/"
ForceIm(s) == [j \in 1..Len(s) |-> IF ModifierAt(s, j) THEN "im_" ELSE s[j]]

\* wayback_image_url(snapshot_url, img_src)
wayback_image_url(snapshot_url, img_src) ==
    IF img_src = <<>> THEN img_src
    ELSE IF Head(img_src) = "data:" THEN img_src
    ELSE IF Contains(ArchiveHost, img_src) THEN ForceIm(img_src)
    ELSE IF WaybackMatch(snapshot_url)
    THEN ForceIm(urljoin(SnapshotBase(snapshot_url), img_src))
    ELSE img_src

\* ContentProcessor.absolutize_links
absolutize_links(elems, snapshot_url) ==
    [i \in 1..Len(elems) |->
        LET v == elems[i].ref
        IN  IF v = <<>> \/ Head(v) = "data:" \/ urlparse(v).scheme # ""
            THEN elems[i]
            ELSE [elems[i] EXCEPT
                      !.ref = urljoin(SnapshotBase(snapshot_url), v)]]

\* ContentProcessor.extract_images: one entry per img with a usable src
RECURSIVE extract_images(_, _)
extract_images(elems, snapshot_url) ==
    IF elems = <<>> THEN <<>>
    ELSE LET e == Head(elems)
             rest == extract_images(Tail(elems), snapshot_url)
         IN  IF e.tag = "img" /\ e.ref # <<>> /\ Head(e.ref) # "data:"
             THEN <<[url |-> wayback_image_url(snapshot_url, e.ref),
                     alt |-> e.alt]>> \o rest
             ELSE rest

\* Database.save_article: INSERT INTO articles, committed
save_article(arts, url_id, content) ==
    Append(arts, [url_id |-> url_id, content |-> content,
                  wp_post_id |-> NULL, wp_permalink |-> NullStr,
                  status |-> "draft"])

\* the INSERT INTO assets loop of process_page
InsertAssets(as, article_id, images) ==
    as \o [i \in 1..Len(images) |->
              [article_id |-> article_id, original_url |-> images[i].url,
               alt_text |-> images[i].alt, wp_media_id |-> NULL,
               wp_url |-> NullStr, uploaded |-> 0]]

\* ContentProcessor.process_page: the articles and assets tables afterwards
process_page(arts, as, url_id, html, snapshot_url) ==
    IF ~Truthy(html) THEN [articles |-> arts, assets |-> as]
    ELSE LET content_abs == absolutize_links(html.elems, snapshot_url)
             images == extract_images(content_abs, snapshot_url)
         IN  [articles |-> save_article(arts, url_id, content_abs),
              assets |-> InsertAssets(as, Len(arts) + 1, images)]

\* the results of fetch_batch are all in
BatchReturned ==
    \A k \in 1..Len(tasks) : tasks[k].pc \in {"done", "saved"}

\* run_fetching after fetch_batch returned, process_page up to and including
\* save_article: the content record of the current result is committed, its
\* asset rows are not yet inserted
SaveArticle ==
    /\ phase = "fetching"
    /\ BatchReturned
    /\ tasks[cursor].pc = "done"
    /\ Truthy(tasks[cursor].result)
    /\ LET url_id == pending[cursor]
           content_abs == absolutize_links(tasks[cursor].result.elems,
                                           urls[url_id].snapshot_url)
       IN  articles' = save_article(articles, url_id, content_abs)
    /\ tasks' = [tasks EXCEPT ![cursor].pc = "saved"]
    /\ UNCHANGED <<urls, assets, logs, remote, phase, pending, permits,
                   cursor, local, ret, hist>>

\* the rest of the iteration of the loop over results: the asset rows of the
\* record just saved are inserted and committed (a falsy result is skipped);
\* the call returns after the last result
ProcessResult ==
    /\ phase = "fetching"
    /\ BatchReturned
    /\ Truthy(tasks[cursor].result) => tasks[cursor].pc = "saved"
    /\ LET article_id == Len(articles)
           snapshot_url == urls[pending[cursor]].snapshot_url
       IN  assets' = IF Truthy(tasks[cursor].result)
                     THEN InsertAssets(assets, article_id,
                              extract_images(articles[article_id].content,
                                             snapshot_url))
                     ELSE assets
    /\ IF cursor = Len(pending)
       THEN /\ phase' = "idle"
            /\ pending' = <<>>
            /\ tasks' = <<>>
            /\ cursor' = 1
            /\ ret' = Ret("run_fetching", 0)
       ELSE /\ cursor' = cursor + 1
            /\ UNCHANGED <<phase, pending, tasks, ret>>
    /\ UNCHANGED <<urls, articles, logs, remote, permits, local, hist>>

\* a stop that would still write the identifier of a post the site has
\* created (creation and local record as one atomic step)
InterruptRecorded ==
    /\ phase # "idle"
    /\ hist.crashes < MaxCrashes
    /\ phase' = "idle"
    /\ pending' = <<>>
    /\ tasks' = <<>>
    /\ permits' = hist.rate_limit
    /\ cursor' = 1
    /\ local' = NoLocal
    /\ ret' = Ret("interrupted", 0)
    /\ hist' = [hist EXCEPT !.crashes = @ + 1]
    /\ articles' = IF phase = "publishing" /\ local.step = "created"
                   THEN [articles EXCEPT ![local.article_id].wp_post_id =
                                             local.post.id]
                   ELSE articles
    /\ UNCHANGED <<urls, assets, logs, remote>>

\* the process is stopped (KeyboardInterrupt, kill, crash) while a phase is
\* running: what was committed stays, the run's memory is gone
Interrupt ==
    /\ phase # "idle"
    /\ hist.crashes < MaxCrashes
    /\ phase' = "idle"
    /\ pending' = <<>>
    /\ tasks' = <<>>
    /\ permits' = hist.rate_limit
    /\ cursor' = 1
    /\ local' = NoLocal
    /\ ret' = Ret("interrupted", 0)
    /\ hist' = [hist EXCEPT !.crashes = @ + 1]
    /\ UNCHANGED <<store, remote>>

\* -------------------------------------------------------------- Publisher
HostNew == <<"n", ".", "c">>

\* media_data['source_url'] of the media item the site created
MediaUrl(media_id) ==
    <<"https", "://">> \o HostNew \o <<"/", "uploads", "/", ToString(media_id)>>

\* post['link'] of a created draft: https://<site>/?p=<id>; the site runs on
\* a new domain or on the domain the archive was taken from
PostLink(host, post_id) ==
    <<"https", "://">> \o host \o <<"/", "?", "p=" \o ToString(post_id)>>

\* outcomes of upload_image: "ok" returns the media; "none" is a failed
\* download or a non-201 upload; "exc" an exception before the media exists;
\* "exc_alt" an exception of the alt-text call, after the media was created
\* (the media item stays without its alt text)
UploadOutcomes == {"ok", "none", "exc", "exc_alt"}

\* answers to POST /wp-json/wp/v2/posts
CreateResponses ==
    {[kind |-> "201", host |-> h] : h \in {HostOld, HostNew}}
        \cup {[kind |-> k, host |-> <<>>] : k \in {"fail", "exc"}}

\* the rewrite of img elements in publish_article after one upload
ReplaceImg(soup, img_url, media_url, alt_text) ==
    [i \in 1..Len(soup) |->
        IF soup[i].tag = "img" /\ soup[i].ref # <<>>
           /\ Contains(img_url, soup[i].ref)
        THEN [soup[i] EXCEPT !.ref = media_url,
                             !.alt = IF alt_text # "" THEN alt_text ELSE @]
        ELSE soup[i]]

\* the UPDATE assets statement without its WHERE id = ? clause: the commit
\* marks every asset row with the last upload of tx
RECURSIVE CommitAssetsNoWhere(_, _)
CommitAssetsNoWhere(as, tx) ==
    IF tx = <<>> THEN as
    ELSE CommitAssetsNoWhere(
             [a \in 1..Len(as) |->
                 [as[a] EXCEPT !.wp_media_id = Head(tx).wp_media_id,
                               !.wp_url = Head(tx).wp_url,
                               !.uploaded = 1]],
             Tail(tx))

\* a commit that never reaches the assets table (the connection's pending
\* UPDATE assets statements are dropped)
CommitAssetsLost(as, tx) == as

\* conn.commit() with the UPDATE assets statements of tx pending
RECURSIVE CommitAssets(_, _)
CommitAssets(as, tx) ==
    IF tx = <<>> THEN as
    ELSE CommitAssets(
             [as EXCEPT ![Head(tx).id] =
                 [@ EXCEPT !.wp_media_id = Head(tx).wp_media_id,
                           !.wp_url = Head(tx).wp_url,
                           !.uploaded = 1]],
             Tail(tx))

UnpublishedRow(a) == a.wp_post_id = NULL

\* publish_article(article_id) up to the loop over the assets: the row, the
\* assets with uploaded = 0, the parsed content
LoadArticle(arts, as, queue, i, published) ==
    LET article_id == queue[i]
        NotUploaded(x) == x.article_id = article_id /\ x.uploaded = 0
    IN  [step |-> "assets", queue |-> queue, i |-> i,
         article_id |-> article_id,
         assets |-> SelectIds({x \in 1..Len(as) : NotUploaded(as[x])}),
         todo |-> SelectIds({x \in 1..Len(as) : NotUploaded(as[x])}),
         soup |-> arts[article_id].content,
         featured_media_id |-> NULL,
         tx |-> <<>>,
         post |-> [id |-> NULL, link |-> NullStr],
         published |-> published]

\* ImportPipeline.run_publishing up to the first publish_article
run_publishing ==
    /\ phase = "idle"
    /\ LET unpublished == {i \in 1..Len(articles) :
                               UnpublishedRow(articles[i])}
           queue == Limit(SelectIds(unpublished), BatchSize)
       IN  IF queue = <<>>
           THEN /\ ret' = Ret("run_publishing", 0)
                /\ UNCHANGED <<phase, local>>
           ELSE /\ phase' = "publishing"
                /\ local' = LoadArticle(articles, assets, queue, 1, 0)
                /\ ret' = Ret("none", 0)
    /\ UNCHANGED <<store, remote, fetchRun, hist>>

\* publish_article: one iteration of `for asset_id, img_url, alt_text in
\* assets`, upload_image ending as outcome says
UploadImage(outcome) ==
    /\ phase = "publishing"
    /\ local.step = "assets"
    /\ local.todo # <<>>
    /\ LET asset_id == Head(local.todo)
           img_url == assets[asset_id].original_url
           alt_text == assets[asset_id].alt_text
           media_id == Len(remote.media) + 1
           logged == outcome \in {"exc", "exc_alt"}
           created == outcome \in {"ok", "exc_alt"}
       IN  /\ outcome = "exc_alt" => alt_text # ""
           /\ logged => Len(logs) < MaxLogs
           /\ remote' = IF created
                        THEN [remote EXCEPT !.media =
                                 Append(@, [asset |-> asset_id, src |-> img_url,
                                            alt_text |-> IF outcome = "ok"
                                                         THEN alt_text
                                                         ELSE ""])]
                        ELSE remote
           /\ logs' = IF logged
                      THEN Log(logs, "error", "Image upload failed", img_url)
                      ELSE logs
              \* Database.log commits whatever the connection has pending;
              \* after the last asset conn.commit() follows with no call in
              \* between, the post creation call is issued next
           /\ LET uploaded == [id |-> asset_id, wp_media_id |-> media_id,
                               wp_url |-> MediaUrl(media_id)]
                  last == Tail(local.todo) = <<>>
                  tx == IF logged THEN local.tx
                        ELSE IF outcome = "ok" THEN Append(local.tx, uploaded)
                        ELSE local.tx
                  commit == logged \/ last
              IN  /\ assets' = IF commit THEN CommitAssets(assets, tx)
                               ELSE assets
                  /\ local' =
                       IF outcome = "ok"
                       THEN [local EXCEPT
                               !.todo = Tail(@),
                               !.tx = IF commit THEN <<>> ELSE tx,
                               !.soup = ReplaceImg(@, img_url,
                                                   MediaUrl(media_id), alt_text),
                               !.featured_media_id =
                                   IF @ = NULL THEN media_id ELSE @]
                       ELSE [local EXCEPT !.todo = Tail(@),
                                          !.tx = IF commit THEN <<>> ELSE tx]
    /\ UNCHANGED <<urls, articles, phase, fetchRun, ret, hist>>

\* run_publishing counting every publish_article call as a success (the
\* `if` on its return value dropped)
PublishNextCounted(arts, as, ok) ==
    LET published == local.published + 1
    IN  IF local.i = Len(local.queue)
        THEN /\ phase' = "idle"
             /\ local' = NoLocal
             /\ ret' = Ret("run_publishing", published)
        ELSE /\ local' = LoadArticle(arts, as, local.queue, local.i + 1,
                                     published)
             /\ UNCHANGED <<phase, ret>>

\* run_publishing after publish_article returned (ok: it returned True):
\* the next article of the batch, or the end of the call
PublishNext(arts, as, ok) ==
    LET published == local.published + (IF ok THEN 1 ELSE 0)
    IN  IF local.i = Len(local.queue)
        THEN /\ phase' = "idle"
             /\ local' = NoLocal
             /\ ret' = Ret("run_publishing", published)
        ELSE /\ local' = LoadArticle(arts, as, local.queue, local.i + 1,
                                     published)
             /\ UNCHANGED <<phase, ret>>

\* publish_article: conn.commit() after the assets loop, then the post
\* creation call answered by resp
CreatePost(resp) ==
    /\ phase = "publishing"
    /\ local.step = "assets"
    /\ local.todo = <<>>
    /\ resp.kind = "fail" => Len(logs) < MaxLogs
    /\ assets' = CommitAssets(assets, local.tx)
    /\ CASE resp.kind = "201" ->
              LET post_id == Len(remote.posts) + 1
              IN  /\ remote' = [remote EXCEPT !.posts =
                        Append(@, [content |-> local.soup,
                                   featured_media |-> local.featured_media_id,
                                   article |-> local.article_id])]
                  /\ local' = [local EXCEPT
                        !.step = "created", !.tx = <<>>,
                        !.post = [id |-> post_id,
                                  link |-> PostLink(resp.host, post_id)]]
                  /\ UNCHANGED <<logs, phase, ret>>
         [] resp.kind = "fail" ->
              /\ logs' = Log(logs, "error", "Failed to publish article",
                             local.article_id)
              /\ PublishNext(articles, assets', FALSE)
              /\ UNCHANGED remote
         [] resp.kind = "exc" ->
              \* the exception leaves publish_article and run_publishing
              /\ phase' = "idle"
              /\ local' = NoLocal
              /\ ret' = Ret("raised", 0)
              /\ UNCHANGED <<logs, remote>>
    /\ UNCHANGED <<urls, articles, fetchRun, hist>>

\* publish_article after a 201: UPDATE articles, commit, return True
RecordPost ==
    /\ phase = "publishing"
    /\ local.step = "created"
    /\ articles' = [articles EXCEPT ![local.article_id] =
                       [@ EXCEPT !.wp_post_id = local.post.id,
                                 !.wp_permalink = local.post.link,
                                 !.status = "published"]]
    /\ PublishNext(articles', assets, TRUE)
    /\ UNCHANGED <<urls, assets, logs, remote, fetchRun, hist>>

\* ------------------------------------------------------------- Link fixer
\* Database.get_url_mapping: (original_url, wp_permalink) of the articles
\* that have a permalink
RECURSIVE get_url_mapping(_, _, _)
get_url_mapping(us, arts, i) ==
    IF i > Len(arts) THEN <<>>
    ELSE (IF arts[i].wp_permalink # NullStr
          THEN <<[old |-> us[arts[i].url_id].original_url,
                  new |-> arts[i].wp_permalink]>>
          ELSE <<>>) \o get_url_mapping(us, arts, i + 1)

\* norm_map: the keys, and the permalink of a key (a later entry of url_map
\* overwrites an earlier one with the same key)
NormKeys(url_map) == {normalize_url(url_map[i].old) : i \in 1..Len(url_map)}
NormMap(url_map, key) ==
    LET hits == {i \in 1..Len(url_map) : normalize_url(url_map[i].old) = key}
        last == CHOOSE i \in hits : \A j \in hits : j <= i
    IN  url_map[last].new

\* a link-fixing loop that marks every anchor it visited, rewritten or not
FixLinksMarked(soup, url_map) ==
    [i \in 1..Len(soup) |->
        IF soup[i].tag # "a" THEN soup[i]
        ELSE IF normalize_url(soup[i].ref) \in NormKeys(url_map)
        THEN [soup[i] EXCEPT
                 !.ref = NormMap(url_map, normalize_url(soup[i].ref)),
                 !.alt = "seen"]
        ELSE [soup[i] EXCEPT !.alt = "seen"]]

\* the loop over soup.find_all('a', href=True) of fix_internal_links
FixLinks(soup, url_map) ==
    [i \in 1..Len(soup) |->
        IF soup[i].tag = "a"
           /\ normalize_url(soup[i].ref) \in NormKeys(url_map)
           /\ soup[i].ref # NormMap(url_map, normalize_url(soup[i].ref))
        THEN [soup[i] EXCEPT
                 !.ref = NormMap(url_map, normalize_url(soup[i].ref))]
        ELSE soup[i]]

PublishedRow(a) == a.wp_post_id # NULL

\* the link fixer's UPDATE written as INSERT OR REPLACE of the row: the
\* columns it does not name fall back to their defaults
RECURSIVE CommitContentReplace(_, _)
CommitContentReplace(arts, tx) ==
    IF tx = <<>> THEN arts
    ELSE CommitContentReplace(
             [arts EXCEPT ![Head(tx).id] =
                 [url_id |-> @.url_id, content |-> Head(tx).content,
                  wp_post_id |-> NULL, wp_permalink |-> NullStr,
                  status |-> "draft"]],
             Tail(tx))

\* a commit that loses the UPDATE articles SET content statements
CommitContentNone(arts, tx) == arts

\* conn.commit() with the UPDATE articles SET content statements of tx
RECURSIVE CommitContent(_, _)
CommitContent(arts, tx) ==
    IF tx = <<>> THEN arts
    ELSE CommitContent([arts EXCEPT ![Head(tx).id].content = Head(tx).content],
                       Tail(tx))

UpdateResponses == {"200", "reject", "exc"}

\* LinkFixer.fix_internal_links up to its loop over the published articles
fix_internal_links ==
    /\ phase = "idle"
    /\ LET rows == SelectIds({i \in 1..Len(articles) :
                                    PublishedRow(articles[i])})
           again == ret.op = "fix_internal_links"
       IN  IF rows = <<>>
           THEN /\ ret' = [Ret("fix_internal_links", 0) EXCEPT !.again = again]
                /\ UNCHANGED <<phase, local>>
           ELSE /\ phase' = "linkfix"
                /\ local' = [step |-> "links", rows |-> rows, i |-> 1,
                             url_map |-> get_url_mapping(urls, articles, 1),
                             tx |-> <<>>, fixed_count |-> 0, calls |-> 0,
                             again |-> again]
                /\ ret' = Ret("none", 0)
    /\ UNCHANGED <<store, remote, fetchRun, hist>>

\* fix_internal_links: one iteration of the loop over the published
\* articles (resp answers the post update, when one is issued); after the
\* last one conn.commit() and return fixed_count
FixArticle(resp) ==
    /\ phase = "linkfix"
    /\ LET article_id == local.rows[local.i]
           content == articles[article_id].content
           new_content == FixLinks(content, local.url_map)
           updated == new_content # content
           accepted == updated /\ resp = "200"
           tx == IF accepted
                 THEN Append(local.tx, [id |-> article_id,
                                        content |-> new_content])
                 ELSE local.tx
           fixed_count == local.fixed_count + (IF accepted THEN 1 ELSE 0)
           calls == local.calls + (IF updated THEN 1 ELSE 0)
       IN  /\ ~updated => resp = "200"
           /\ remote' = IF accepted
                        THEN [remote EXCEPT
                                 !.posts[articles[article_id].wp_post_id]
                                     .content = new_content]
                        ELSE remote
           /\ IF updated /\ resp = "exc"
              THEN \* the exception leaves fix_internal_links: no commit
                   /\ phase' = "idle"
                   /\ local' = NoLocal
                   /\ ret' = Ret("raised", 0)
                   /\ UNCHANGED articles
              ELSE IF local.i = Len(local.rows)
              THEN /\ phase' = "idle"
                   /\ local' = NoLocal
                   /\ articles' = CommitContent(articles, tx)
                   /\ ret' = [op |-> "fix_internal_links",
                              val |-> fixed_count, calls |-> calls,
                              again |-> local.again]
              ELSE /\ local' = [local EXCEPT !.i = @ + 1, !.tx = tx,
                                             !.fixed_count = fixed_count,
                                             !.calls = calls]
                   /\ UNCHANGED <<phase, articles, ret>>
    /\ UNCHANGED <<urls, assets, logs, fetchRun, hist>>

\* ------------------------------------------------------------------ spec
\* the state after ImportPipeline(config) on a new database, rate_limit the
\* configured value
InitWith(rate_limit) ==
    /\ urls = <<>>
    /\ articles = <<>>
    /\ assets = <<>>
    /\ logs = <<>>
    /\ remote = [posts |-> <<>>, media |-> <<>>]
    /\ phase = "idle"
    /\ pending = <<>>
    /\ tasks = <<>>
    /\ permits = rate_limit
    /\ cursor = 1
    /\ ret = Ret("none", 0)
    /\ local = NoLocal
    /\ hist = [runs |-> 0, crashes |-> 0, exhausted |-> {},
               rate_limit |-> rate_limit]

Init == InitWith(RateLimit)

\* the actions of each phase, the environment's answers drawn from the
\* given sets
Discovery == \E resp \in IndexResponses : discover_urls(resp)

Fetching(wide) ==
    \/ run_fetching
    \/ \E k \in 1..Len(tasks) : Acquire(k)
    \/ \E k \in 1..Len(tasks) :
           \E resp \in (IF wide
                         THEN FetchResponses(urls[pending[k]].original_url)
                         ELSE NarrowFetch(urls[pending[k]].original_url)) :
               Attempt(k, resp)
    \/ SaveArticle
    \/ ProcessResult

Publishing(Outcomes, Creates) ==
    \/ run_publishing
    \/ \E outcome \in Outcomes : UploadImage(outcome)
    \/ \E resp \in Creates : CreatePost(resp)
    \/ RecordPost

LinkFixing(Updates) ==
    \/ fix_internal_links
    \/ \E resp \in Updates : FixArticle(resp)

\* The whole pipeline, every phase invocable whenever the process is idle and
\* run to its end, against an archive and a site that each fail in one way:
\* a page that answers 404, an upload that returns None, a post creation
\* that is refused; post updates are accepted. (Stopping the process in the
\* middle of a phase is explored phase by phase in the specifications below.)
NarrowCreates ==
    {[kind |-> "201", host |-> HostNew], [kind |-> "fail", host |-> <<>>]}

Next ==
    \/ Discovery
    \/ Fetching(FALSE)
    \/ Publishing({"ok", "none"}, NarrowCreates)
    \/ LinkFixing({"200"})

Spec == Init /\ [][Next]_vars

\* Discovery and the fetch phase against every answer of the archive.
NextFetch ==
    \/ Discovery
    \/ Fetching(TRUE)
    \/ Interrupt

SpecFetch == Init /\ [][NextFetch]_vars

\* Discovery and the fetch phase under every configured rate limit from 1
\* (the smallest the UI accepts) to the default, the archive failing in one
\* way only.
RateLimits == 1..RateLimit

InitGate == \E rate_limit \in RateLimits : InitWith(rate_limit)

NextGate ==
    \/ Discovery
    \/ Fetching(FALSE)
    \/ Interrupt

SpecGate == InitGate /\ [][NextGate]_vars

\* The store a discovery and an uninterrupted fetch run of both pages leave.
FetchedUrls ==
    LET us == DiscoverRows(<<>>, <<Row(UHome, "2019"), Row(UPostA, "2019")>>,
                           0).urls
    IN  update_url_status(update_url_status(us, 1, "fetched"), 2, "fetched")
ProcessedHome ==
    process_page(<<>>, <<>>, 1, PageHome, FetchedUrls[1].snapshot_url)
ProcessedBoth ==
    process_page(ProcessedHome.articles, ProcessedHome.assets, 2, PageA,
                 FetchedUrls[2].snapshot_url)

InitPublish ==
    /\ urls = FetchedUrls
    /\ articles = ProcessedBoth.articles
    /\ assets = ProcessedBoth.assets
    /\ logs = <<[level |-> "info", message |-> "Discovered", context |-> 2]>>
    /\ remote = [posts |-> <<>>, media |-> <<>>]
    /\ phase = "idle"
    /\ pending = <<>>
    /\ tasks = <<>>
    /\ permits = RateLimit
    /\ cursor = 1
    /\ local = NoLocal
    /\ ret = Ret("run_fetching", 0)
    /\ hist = [runs |-> 1, crashes |-> 0, exhausted |-> {},
               rate_limit |-> RateLimit]

\* The publish phase against every answer of the site.
NextPublish ==
    \/ Publishing(UploadOutcomes, CreateResponses)
    \/ Interrupt

SpecPublish == InitPublish /\ [][NextPublish]_vars

\* The link-fix phase against every answer of the site, interleaved with a
\* publish phase whose uploads and post creations succeed (the site on a new
\* domain or on the domain the archive was taken from).
CreatedResponses == {r \in CreateResponses : r.kind = "201"}

NextLinks ==
    \/ Publishing({"ok"}, CreatedResponses)
    \/ LinkFixing(UpdateResponses)
    \/ Interrupt

SpecLinks == InitPublish /\ [][NextLinks]_vars

\* normalize_url on its own: the URLs handed to it, an href or a source URL
\* made of a scheme, a host, a path and an optional query
NormSchemes == {"http", "https"}
NormHosts ==
    {HostOld, HostWww,
     <<"W", "W", "W", ".", "O", ".", "c">>,
     <<"w", "w", "w", ".">> \o HostWww,
     <<"w", "o", ".", "c">>,
     <<".", "o", ".", "c">>,
     ArchiveHost}
NormPaths ==
    {<<>>, <<"/">>, <<"/", "a">>, <<"/", "A", "/">>,
     <<"/", "a", "/", "/", "b">>, <<"/", "/", "a", "/", "/">>}
NormQueries == {<<>>, <<"?", "w=2">>}
NormInputs ==
    {<<s, "://">> \o h \o p \o q :
        s \in NormSchemes, h \in NormHosts, p \in NormPaths, q \in NormQueries}

InitNorm ==
    /\ urls = <<>>
    /\ articles = <<>>
    /\ assets = <<>>
    /\ logs = <<>>
    /\ remote = [posts |-> <<>>, media |-> <<>>]
    /\ phase = "idle"
    /\ pending = <<>>
    /\ tasks = <<>>
    /\ permits = RateLimit
    /\ cursor = 1
    /\ ret = Ret("none", 0)
    /\ hist = [runs |-> 0, crashes |-> 0, exhausted |-> {},
               rate_limit |-> RateLimit]
    /\ \E host_or_url \in NormInputs :
           local = [step |-> "url", url |-> host_or_url]

\* the call normalize_url(host_or_url)
NormalizeUrl ==
    /\ local.step = "url"
    /\ local' = [step |-> "normalized", url |-> local.url,
                 key |-> normalize_url(local.url)]
    /\ UNCHANGED <<store, remote, phase, fetchRun, ret, hist>>

NextNorm == NormalizeUrl

SpecNorm == InitNorm /\ [][NextNorm]_vars

\* ---------------------------------------------------------------- claims
\* C1: after any sequence of discover_urls calls no two work items share a
\* source URL, and a discover_urls call is idempotent on the work items:
\* answering the same index response once more to the store the call left
\* gives exactly that store (rows, statuses, retry counters, locators).
C1_IdempotentDiscovery ==
    [][ /\ \A i, j \in 1..Len(urls') :
              urls'[i].original_url = urls'[j].original_url => i = j
        /\ \A resp \in IndexResponses :
              (resp.status = 200 /\ discover_urls(resp))
                  => DiscoverRows(urls', resp.rows, 0).urls = urls' ]_vars

\* a second discovery call returned and the store holds a single work item:
\* both calls received the same response, the one that lists that page
C1_Witness ==
    /\ ret.op = "discover_urls"
    /\ Len(logs) = 2
    /\ logs[1].message = "Discovered" /\ logs[2].message = "Discovered"
    /\ Len(urls) = 1

\* C2: discover_urls returns the number of work-item rows the call added to
\* the store.
C2_ReturnsNewlyEnqueued ==
    [][ \A resp \in IndexResponses :
            discover_urls(resp) => ret'.val = Len(urls') - Len(urls) ]_vars

\* C3: no step of any phase changes a work item's status from fetched or
\* failed to pending, removes a work item, or decreases its retry counter.
C3_MonotonicStatus ==
    [][ \A i \in 1..Len(urls) :
            /\ i <= Len(urls')
            /\ urls[i].status \in {"fetched", "failed"}
                   => urls'[i].status # "pending"
            /\ urls'[i].retries >= urls[i].retries ]_vars

\* a link-fix run returned while one work item is failed and another one,
\* fetched, has its record published
C3_Witness ==
    /\ ret.op = "fix_internal_links"
    /\ \E i \in 1..Len(urls) : urls[i].status = "failed" /\ urls[i].retries > 0
    /\ \E a \in 1..Len(articles) :
           /\ urls[articles[a].url_id].status = "fetched"
           /\ articles[a].wp_post_id # NULL

\* C4: when fetch_page returns without a page after max_retries attempts
\* (it returned None), the work item's status is failed, whatever the kinds
\* of the failures.
C4_ExhaustionMarksFailed ==
    phase = "fetching" =>
        \A k \in 1..Len(tasks) :
            (tasks[k].pc = "done" /\ tasks[k].result = NoneHtml)
                => urls[pending[k]].status = "failed"

\* C5: a fetch run never selects a work item that has suffered max_retries
\* transient failures in an earlier fetch_page call, nor one whose status
\* is failed.
C5_NoRetargeting ==
    [][ (phase = "idle" /\ phase' = "fetching") =>
            \A k \in 1..Len(pending') :
                /\ pending'[k] \notin hist.exhausted
                /\ urls[pending'[k]].status # "failed" ]_vars

\* C6: when run_fetching returns, in a history that may hold an interrupted
\* run, the store is the one an uninterrupted run leaves; in particular the
\* home page, which the archive always serves with its markup, owns a
\* content record once its status is fetched.
C6_Resumable ==
    (phase = "idle" /\ ret.op = "run_fetching") =>
        \A i \in 1..Len(urls) :
            (urls[i].original_url = UHome /\ urls[i].status = "fetched")
                => \E a \in 1..Len(articles) : articles[a].url_id = i

\* C7: in the body of every post the site created, an img reference was
\* replaced only if the asset extracted from that very img was uploaded
\* successfully (its row is marked uploaded).
C7_PartialSuccess ==
    \A p \in 1..Len(remote.posts) :
        LET sent == remote.posts[p].content
            article_id == remote.posts[p].article
            stored == articles[article_id].content
            OfArticle(x) == x.article_id = article_id
            own == SelectIds({x \in 1..Len(assets) : OfArticle(assets[x])})
            Usable(e) == e.tag = "img" /\ e.ref # <<>> /\ Head(e.ref) # "data:"
            nth(i) == Cardinality({j \in 1..i : Usable(stored[j])})
        IN  \A i \in 1..Len(sent) :
                (Usable(stored[i]) /\ sent[i].ref # stored[i].ref)
                    => assets[own[nth(i)]].uploaded = 1

\* C8: a fix_internal_links run that directly follows another one returns 0
\* and issues no remote post update.
C8_FixedPoint ==
    (ret.op = "fix_internal_links" /\ ret.again)
        => (ret.val = 0 /\ ret.calls = 0)

\* C9: a content record is created with a null remote-post identifier; the
\* identifier becomes non-null only in the step that records the post the
\* site created (201) for that record, and a non-null identifier is never
\* changed again.
C9_PostIdLifecycle ==
    [][ /\ Len(articles') >= Len(articles)
        /\ \A i \in 1..Len(articles') :
              IF i > Len(articles)
              THEN articles'[i].wp_post_id = NULL
              ELSE IF articles[i].wp_post_id # NULL
              THEN articles'[i].wp_post_id = articles[i].wp_post_id
              ELSE articles'[i].wp_post_id # NULL =>
                      /\ phase = "publishing" /\ local.step = "created"
                      /\ local.article_id = i
                      /\ articles'[i].wp_post_id \in 1..Len(remote.posts)
                      /\ remote.posts[articles'[i].wp_post_id].article = i
      ]_vars

\* both records are published and a link-fix run has rewritten their bodies
C9_Witness ==
    /\ ret.op = "fix_internal_links" /\ ret.val = 2
    /\ \A i \in 1..Len(articles) : articles[i].wp_post_id # NULL
    /\ Len(articles) = 2

\* C10: an asset's uploaded flag never goes from 1 to 0, and it goes from 0
\* to 1 only for an asset for which the site has created a media item.
C10_UploadedFlag ==
    [][ /\ Len(assets') >= Len(assets)
        /\ \A a \in 1..Len(assets) :
              /\ assets'[a].uploaded >= assets[a].uploaded
              /\ assets'[a].uploaded # assets[a].uploaded =>
                     \E m \in 1..Len(remote'.media) :
                         remote'.media[m].asset = a ]_vars

\* a publish run returned after a crash with one asset marked uploaded and
\* another one, whose upload failed, not marked
C10_Witness ==
    /\ ret.op = "run_publishing" /\ hist.crashes > 0
    /\ \E a, b \in 1..Len(assets) :
           /\ assets[a].article_id = assets[b].article_id
           /\ assets[a].uploaded = 1 /\ assets[b].uploaded = 0

\* C11: an error on one record never keeps the rest of the batch from being
\* processed in the same invocation: a publish run that ends (the process
\* was not stopped) has gone through every record of its batch.
C11_ErrorIsolation ==
    [][ (phase = "publishing" /\ phase' = "idle"
            /\ hist'.crashes = hist.crashes)
            => local.i = Len(local.queue) ]_vars

\* C12: when the post creation is refused (no 201), publish_article writes
\* an error log entry for the record and returns False (the run's count of
\* published records does not grow), no post exists for the call, the
\* record keeps a null remote identifier and status draft, and it is among
\* the rows the next run_publishing selects.
C12_FailedPublishEligible ==
    [][ (phase = "publishing" /\ local.step = "assets" /\ local.todo = <<>>
            /\ Len(logs') > Len(logs))
            => LET id == local.article_id
                   unpublished == {i \in 1..Len(articles') :
                                      UnpublishedRow(articles'[i])}
                   queue == Limit(SelectIds(unpublished), BatchSize)
               IN  /\ logs'[Len(logs')] =
                          [level |-> "error",
                           message |-> "Failed to publish article",
                           context |-> id]
                   /\ remote' = remote
                   /\ articles'[id].wp_post_id = NULL
                   /\ articles'[id].status = "draft"
                   /\ IF phase' = "idle"
                      THEN ret'.val = local.published
                      ELSE local'.published = local.published
                   /\ \E k \in 1..Len(queue) : queue[k] = id ]_vars

\* a later publish run is working on a record whose post creation was
\* refused before
C12_Witness ==
    /\ phase = "publishing"
    /\ \E l \in 1..Len(logs) :
           /\ logs[l].message = "Failed to publish article"
           /\ logs[l].context = local.article_id

\* C13: when publish_article issues the post-creation call, every UPDATE
\* assets it executed is committed, so each asset whose media item the body
\* or the featured media uses is marked uploaded with that item; and when
\* the process is stopped at that point, before the site created a post, the
\* store keeps these marks and the site has no new post.
C13_AssetsCommittedBeforeCreate ==
    [][ (phase = "publishing" /\ local.step = "assets" /\ local.todo = <<>>)
            => /\ local.tx = <<>>
               /\ \A m \in 1..Len(remote.media) :
                      (\/ local.featured_media_id = m
                       \/ \E i \in 1..Len(local.soup) :
                              local.soup[i].ref = MediaUrl(m))
                          => LET a == remote.media[m].asset
                             IN  /\ assets[a].uploaded = 1
                                 /\ assets[a].wp_media_id = m
                                 /\ assets[a].wp_url = MediaUrl(m)
               /\ hist'.crashes > hist.crashes
                      => (assets' = assets /\ remote' = remote) ]_vars

\* the process was stopped while the post creation of the first record was
\* being issued: its assets are marked uploaded, the site has no post
C13_Witness ==
    /\ ret.op = "interrupted"
    /\ remote.posts = <<>>
    /\ Len(logs) = 1
    /\ \A a \in 1..Len(assets) :
           assets[a].article_id = 1 => assets[a].uploaded = 1

\* C14: during fetch_batch the number of tasks inside the semaphore (with
\* a request in flight or between two attempts) never exceeds the
\* configured rate_limit.
C14_BoundedConcurrency ==
    Cardinality({k \in 1..Len(tasks) : tasks[k].pc = "run"}) <= hist.rate_limit

\* with rate_limit 1, one task of a batch of two holds the semaphore and the
\* other one waits for it
C14_Witness ==
    /\ hist.rate_limit = 1 /\ permits = 0
    /\ \E j, k \in 1..Len(tasks) : tasks[j].pc = "run" /\ tasks[k].pc = "wait"

C16_OneRecordPerItem ==
    \A a \in 1..Len(articles) :
        /\ articles[a].url_id \in 1..Len(urls)
        /\ \A b \in 1..Len(articles) :
               articles[a].url_id = articles[b].url_id => a = b

\* two content records exist after a fetch run was interrupted and another
\* one was started
C16_Witness ==
    hist.crashes > 0 /\ hist.runs = 2 /\ Len(articles) = 2

\* C17: whenever the process is idle (a phase returned or was stopped), every
\* content record in the store has all the asset rows that were extracted
\* with it: one row per image of its content.
C17_NoPartialWrite ==
    phase = "idle" =>
        \A a \in 1..Len(articles) :
            Cardinality({x \in 1..Len(assets) : assets[x].article_id = a})
                = Len(extract_images(articles[a].content,
                                     urls[articles[a].url_id].snapshot_url))

\* C18: an asset whose upload succeeded (upload_image returned the media
\* item: it exists on the site with the asset's alt text) is never uploaded
\* again, by the same or any later publish run.
C18_UploadOnce ==
    [][ \A m \in 1..Len(remote.media) :
            remote.media[m].alt_text = assets[remote.media[m].asset].alt_text
                => \A n \in (Len(remote.media) + 1)..Len(remote'.media) :
                       remote'.media[n].asset # remote.media[m].asset ]_vars

\* C19: when the process stops after the site created the post and before
\* its identifier is committed, the record keeps a null wp_post_id; and a
\* run_publishing that starts while a record with a null wp_post_id already
\* has a post on the site selects that record again (within the batch
\* limit), so that a second post is created for it.
C19_DoublePublishReachable ==
    [][ /\ (phase = "publishing" /\ local.step = "created"
                /\ phase' = "idle" /\ hist'.crashes # hist.crashes)
            => articles'[local.article_id].wp_post_id = NULL
        /\ (phase = "idle" /\ phase' = "publishing")
            => \A p \in 1..Len(remote.posts) :
                   LET a == remote.posts[p].article
                       before == {b \in 1..(a - 1) :
                                      articles[b].wp_post_id = NULL}
                   IN  (articles[a].wp_post_id = NULL
                            /\ Cardinality(before) < BatchSize)
                           => \E i \in 1..Len(local'.queue) :
                                  local'.queue[i] = a ]_vars

\* two posts of one content record exist on the site after a stop
C19_Witness ==
    /\ hist.crashes > 0
    /\ \E p, q \in 1..Len(remote.posts) :
           p # q /\ remote.posts[p].article = remote.posts[q].article

\* C20: every fetch attempt of a work item that fails with a retriable
\* status (429/5xx), a timeout or a transport exception increases the
\* item's stored retry counter by exactly one.
C20_RetryCounterIncreases ==
    [][ \A k \in 1..Len(tasks) :
            \A resp \in FetchResponses(urls[pending[k]].original_url) :
                (resp.kind \in {"retriable", "exc"} /\ Attempt(k, resp))
                    => urls'[pending[k]].retries
                           = urls[pending[k]].retries + 1 ]_vars

\* C21: within a fetch batch, whatever the interleaving of the tasks, a
\* step changes the status of at most one work item; the item is the one of
\* a running task that returns in this very step (so its status is written
\* at most once in the batch, the batch holding one task per item), the
\* change is pending -> fetched or pending -> failed, and it is fetched
\* exactly when that task returned a page, whatever the other tasks did.
C21_StatusWrittenOnce ==
    [][ /\ \A j, k \in 1..Len(pending) : pending[j] = pending[k] => j = k
        /\ \A i \in 1..Len(urls) :
             urls'[i].status # urls[i].status
                => /\ phase = "fetching"
                   /\ urls[i].status = "pending"
                   /\ urls'[i].status \in {"fetched", "failed"}
                   /\ \A j \in 1..Len(urls) : j # i => urls'[j] = urls[j]
                   /\ \E k \in 1..Len(pending) :
                         /\ pending[k] = i
                         /\ tasks[k].pc = "run" /\ tasks'[k].pc = "done"
                         /\ (urls'[i].status = "fetched")
                                <=> (tasks'[k].result # NoneHtml) ]_vars

\* the second task of a batch returned with its item's status written while
\* the first is still in its retry loop
C21_Witness ==
    /\ phase = "fetching" /\ Len(tasks) = 2
    /\ tasks[2].pc = "done" /\ tasks[1].pc = "run" /\ tasks[1].attempt > 1
    /\ urls[pending[2]].status = "fetched"
    /\ urls[pending[1]].status = "pending"

C23_TouchesOnlyChanged ==
    [][ (phase = "linkfix" /\ hist'.crashes = hist.crashes)
          => LET a == local.rows[local.i]
                 Rewritten(r) ==
                     \E i \in 1..Len(articles[r].content) :
                         LET e == articles[r].content[i]
                         IN  /\ e.tag = "a"
                             /\ \E b \in 1..Len(articles) :
                                  /\ articles[b].wp_permalink # NullStr
                                  /\ normalize_url(e.ref) = normalize_url(
                                         urls[articles[b].url_id].original_url)
                                  /\ e.ref # articles[b].wp_permalink
                 calls == IF phase' = "linkfix" THEN local'.calls
                          ELSE ret'.calls
                 issued == ret'.op = "raised" \/ calls = local.calls + 1
             IN  /\ issued <=> Rewritten(a)
                 /\ ~issued => calls = local.calls
                 /\ ~Rewritten(a) => remote' = remote
                 /\ \A r \in 1..Len(articles) :
                        articles'[r].content # articles[r].content
                            => Rewritten(r) ]_vars

\* a run over two published records returned having updated one of them
\* and skipped the other
C23_Witness ==
    /\ phase = "idle" /\ ret.op = "fix_internal_links"
    /\ ret.calls = 1 /\ ret.val = 1
    /\ \A a \in 1..Len(articles) : PublishedRow(articles[a])

\* C24: the key normalize_url returns is the lower-cased host without one
\* leading "www." (nothing else removed from the host) and the path with
\* duplicate slashes collapsed and the trailing slash removed; scheme and
\* query do not enter it.
C24_NormalizedKey ==
    local.step = "normalized" =>
        LET pu == urlparse(local.url)
            host == Lower(pu.netloc)
            www == <<"w", "w", "w", ".">>
            stripped == IF Len(host) >= 4 /\ SubSeq(host, 1, 4) = www
                        THEN SubSeq(host, 5, Len(host))
                        ELSE host
            collapsed == CollapseSlashes(pu.path)
            path == IF collapsed # <<>> /\ collapsed[Len(collapsed)] = "/"
                    THEN SubSeq(collapsed, 1, Len(collapsed) - 1)
                    ELSE collapsed
        IN  local.key = <<stripped, path>>

\* C25: every post the site creates for a record carries as featured media
\* the remote identifier of the record's first uploaded asset (in asset
\* order), whichever publish attempt uploaded it, and none only when the
\* record has no uploaded asset.
C25_FeaturedMedia ==
    [][ Len(remote'.posts) > Len(remote.posts)
          => LET post == remote'.posts[Len(remote'.posts)]
                 up == {x \in 1..Len(assets') :
                           /\ assets'[x].article_id = post.article
                           /\ assets'[x].uploaded = 1}
                 first == CHOOSE x \in up : \A y \in up : x <= y
             IN  post.featured_media =
                     IF up = {} THEN NULL ELSE assets'[first].wp_media_id
      ]_vars

\* C26: no work item has a URL that matches the exclusion list (its
\* lower-cased form contains /wp-admin/, /feed/, /tag/, /author/, .xml or
\* .json); and a discover_urls call answered with candidates enqueues every
\* candidate that does not match and is not yet known, once, with status
\* pending, and nothing else, leaving the known work items as they are.
C26_PathExclusion ==
    [][ LET Match(u) ==
                \E x \in { <<"/", "wp-admin", "/">>, <<"/", "feed", "/">>,
                           <<"/", "tag", "/">>, <<"/", "author", "/">>,
                           <<".xml">>, <<".json">> } : Contains(x, Lower(u))
            known == {urls[i].original_url : i \in 1..Len(urls)}
            new == (Len(urls) + 1)..Len(urls')
        IN  /\ urls' # urls
                 => \A i \in 1..Len(urls') : ~Match(urls'[i].original_url)
            /\ (phase = "idle" /\ ret'.op = "discover_urls")
                 => \A resp \in IndexResponses :
                 (resp.status = 200 /\ discover_urls(resp))
                   => LET wanted == {resp.rows[r].original :
                                        r \in 1..Len(resp.rows)} \ known
                      IN  /\ SubSeq(urls', 1, Len(urls)) = urls
                          /\ {urls'[i].original_url : i \in new}
                                 = {u \in wanted : ~Match(u)}
                          /\ Cardinality(new)
                                 = Cardinality({u \in wanted : ~Match(u)})
                          /\ \A i \in new : urls'[i].status = "pending"
      ]_vars

\* the answer listing /FEED/x.xml and the home page was given on an empty
\* store: one work item, the home page, pending
C26_Witness ==
    /\ ret.op = "discover_urls" /\ ret.val = 1
    /\ Len(urls) = 1
    /\ urls[1].original_url = UHome /\ urls[1].timestamp = "2020"
    /\ urls[1].status = "pending"

\* C27: every fetch attempt that does not succeed (retriable status, other
\* non-200 status, timeout or exception) appends one error entry to the
\* audit log that carries the work item and the attempt number.
C27_FailedAttemptAudited ==
    [][ \A k \in 1..Len(tasks) :
            \A resp \in FetchResponses(urls[pending[k]].original_url) :
                (resp.kind # "ok" /\ Attempt(k, resp))
                    => /\ Len(logs') = Len(logs) + 1
                       /\ logs'[Len(logs')].level = "error"
                       /\ logs'[Len(logs')].context =
                              [url |-> pending[k],
                               attempt |-> tasks[k].attempt] ]_vars

\* C28: in every reachable state the retry counter of every work item is at
\* most max_retries.
C28_RetriesBounded ==
    \A i \in 1..Len(urls) : urls[i].retries <= MaxRetries

\* C29: when the site creates the post of a record some of whose assets
\* were uploaded by an earlier publish_article call (they were marked
\* uploaded before this call selected its assets), the body sent has the
\* img reference of every uploaded asset of the record replaced: it is no
\* longer the stored source reference.
C29_KeepsAssetRewrites ==
    [][ Len(remote'.posts) > Len(remote.posts)
          => LET post == remote'.posts[Len(remote'.posts)]
                 sent == post.content
                 stored == articles[post.article].content
                 own == SelectIds({x \in 1..Len(assets') :
                                      assets'[x].article_id = post.article})
                 earlier == {x \in Range(own) : assets'[x].uploaded = 1}
                                \ Range(local.assets)
                 Usable(e) == e.tag = "img" /\ e.ref # <<>>
                                  /\ Head(e.ref) # "data:"
                 nth(i) == Cardinality({j \in 1..i : Usable(stored[j])})
             IN  earlier # {}
                   => \A i \in 1..Len(stored) :
                        (Usable(stored[i])
                            /\ assets'[own[nth(i)]].uploaded = 1)
                          => sent[i].ref # stored[i].ref ]_vars

\* C30: a post update issued by fix_internal_links changes nothing of the
\* remote post's body but anchor targets: every other element, in
\* particular every img reference the Publisher rewrote to a remote media
\* URL, is as it was in the body the post had on the site.
C30_OnlyAnchorTargets ==
    [][ phase = "linkfix"
          => \A p \in 1..Len(remote.posts) :
               LET before == remote.posts[p].content
                   after == remote'.posts[p].content
               IN  /\ Len(after) = Len(before)
                   /\ \A i \in 1..Len(before) :
                        /\ after[i].tag = before[i].tag
                        /\ after[i].alt = before[i].alt
                        /\ before[i].tag # "a" => after[i].ref = before[i].ref
      ]_vars

\* C31: whenever run_fetching has returned and no run was ever interrupted,
\* every work item whose status is fetched owns a content record, whatever
\* body the fetch returned.
C31_FetchedImpliesExtracted ==
    (phase = "idle" /\ ret.op = "run_fetching" /\ hist.crashes = 0) =>
        \A i \in 1..Len(urls) :
            urls[i].status = "fetched"
                => \E a \in 1..Len(articles) : articles[a].url_id = i

====
